---------------------------- MODULE Spec2Model ----------------------------
(***************************************************************************)
(* Model of the `cached` attribute macro of moka-cached-proc               *)
(* (src/moka-cached-proc/src/lib.rs, helpers.rs) and of the wrapper it     *)
(* emits, run by concurrent callers against the moka cache it targets.     *)
(*                                                                         *)
(* Syntax trees of `syn` are records:                                      *)
(*   Type     [k, lead, segs, angle, args, elems]                          *)
(*            k = "Path": segs are the path's identifiers, lead its        *)
(*            leading `::`, angle whether the last segment has `<..>`,     *)
(*            args the generic arguments of the last segment;              *)
(*            k = "Reference"/"Tuple": elems the referent / the elements;  *)
(*            k = "Lifetime": a generic argument that is not a type.       *)
(*   Pat      [k, ident, mutability, elems]                                *)
(*            k in Ident, Reference, Struct, Tuple, TupleStruct, Wild.     *)
(*   FnArg    [k, pat, ty], k in Receiver, Typed.                          *)
(* A helper's outcome is [err, val]: err = "" and the value, or the panic  *)
(* message (a proc-macro panic is a compile error: nothing is emitted).    *)
(***************************************************************************)
EXTENDS Integers, Sequences, FiniteSets, TLC

\* ------------------------------------------------------------------ bounds

\* longest parameter list of an annotated function
MaxParams == 3
\* calls made to the generated wrapper, by all callers together
MaxCalls == 3
\* entries the cache may drop (capacity eviction / time-to-live expiry) in a run
MaxEvictions == 1

\* ------------------------------------------------------------ syntax trees

\* Option<T>: None is the empty sequence, Some(x) the sequence of x alone
None == <<>>
Some(x) == <<x>>
Unwrap(o) == o[1]

Ok(v) == [err |-> "", val |-> v]
Panic(msg) == [err |-> msg, val |-> <<>>]

TyPathFull(lead, segs, angle, args) ==
    [k |-> "Path", lead |-> lead, segs |-> segs, angle |-> angle, args |-> args, elems |-> <<>>]
TyPath(name) == TyPathFull(FALSE, <<name>>, FALSE, <<>>)
TyGeneric(name, args) == TyPathFull(FALSE, <<name>>, TRUE, args)
TyReference(elem) ==
    [k |-> "Reference", lead |-> FALSE, segs |-> <<>>, angle |-> FALSE, args |-> <<>>, elems |-> <<elem>>]
TyTuple(elems) ==
    [k |-> "Tuple", lead |-> FALSE, segs |-> <<>>, angle |-> FALSE, args |-> <<>>, elems |-> elems]
Lifetime ==
    [k |-> "Lifetime", lead |-> FALSE, segs |-> <<"'a">>, angle |-> FALSE, args |-> <<>>, elems |-> <<>>]

PatIdent(ident, mutability) ==
    [k |-> "Ident", ident |-> ident, mutability |-> mutability, elems |-> <<>>]
PatReference(pat) ==
    [k |-> "Reference", ident |-> "", mutability |-> FALSE, elems |-> <<pat>>]
PatStruct(name, fields) ==
    [k |-> "Struct", ident |-> name, mutability |-> FALSE, elems |-> fields]
PatTuple(elems) ==
    [k |-> "Tuple", ident |-> "", mutability |-> FALSE, elems |-> elems]
PatTupleStruct(name, elems) ==
    [k |-> "TupleStruct", ident |-> name, mutability |-> FALSE, elems |-> elems]
PatWild ==
    [k |-> "Wild", ident |-> "_", mutability |-> FALSE, elems |-> <<>>]

Typed(pat, ty) == [k |-> "Typed", pat |-> pat, ty |-> ty]
Receiver == [k |-> "Receiver", pat |-> PatIdent("self", FALSE), ty |-> TyPath("Self")]

ReturnDefault == [k |-> "Default", ty |-> TyTuple(<<>>)]
ReturnType(ty) == [k |-> "Type", ty |-> ty]

\* ------------------------------------------------- token streams (quote!)

RECURSIVE Join(_, _)
\* the token sequences `parts` with the token `sep` between them
Join(parts, sep) ==
    IF Len(parts) = 0 THEN <<>>
    ELSE IF Len(parts) = 1 THEN parts[1]
    ELSE parts[1] \o <<sep>> \o Join(Tail(parts), sep)

RECURSIVE TypeTokens(_)
\* quote! { #ty }: the tokens of a type
TypeTokens(ty) ==
    CASE ty.k = "Path" ->
           (IF ty.lead THEN <<"::">> ELSE <<>>)
           \o Join([i \in 1..Len(ty.segs) |-> <<ty.segs[i]>>], "::")
           \o (IF ty.angle
               THEN <<"<">> \o Join([i \in 1..Len(ty.args) |-> TypeTokens(ty.args[i])], ",") \o <<">">>
               ELSE <<>>)
      [] ty.k = "Reference" -> <<"&">> \o TypeTokens(ty.elems[1])
      [] ty.k = "Tuple" ->
           <<"(">> \o Join([i \in 1..Len(ty.elems) |-> TypeTokens(ty.elems[i])], ",") \o <<")">>
      [] OTHER -> ty.segs

\* TokenStream::to_string(): the text of the tokens, separated by single
\* spaces (a text is the sequence of its words and spaces)
to_string(tokens) == Join([i \in 1..Len(tokens) |-> <<tokens[i]>>], " ")

\* -------------------------------------------------------------- helpers.rs

\* helpers.rs strip_mut_from_pat: only a top-level identifier pattern loses
\* its `mut`; every other pattern is cloned as it is
strip_mut_from_pat(pat_type) ==
    IF pat_type.pat.k = "Ident"
    THEN IF pat_type.pat.mutability
         THEN [pat_type.pat EXCEPT !.mutability = FALSE]
         ELSE pat_type.pat
    ELSE pat_type.pat

\* helpers.rs get_mut_signature: the signature with each typed input's
\* pattern replaced by strip_mut_from_pat of it
get_mut_signature(signature) ==
    [signature EXCEPT !.inputs =
        [i \in 1..Len(signature.inputs) |->
            IF signature.inputs[i].k = "Receiver"
            THEN signature.inputs[i]
            ELSE [signature.inputs[i] EXCEPT !.pat = strip_mut_from_pat(signature.inputs[i])]]]

RECURSIVE param_names(_, _)
RECURSIVE param_names_each(_, _)
\* helpers.rs param_names: the (identifier, depth) leaves of a pattern
param_names(pat, depth) ==
    CASE pat.k = "Ident" -> << <<pat.ident, depth>> >>
      [] pat.k = "Reference" -> param_names(pat.elems[1], depth + 1)
      [] pat.k \in {"Struct", "Tuple", "TupleStruct"} -> param_names_each(pat.elems, depth + 1)
      [] OTHER -> <<>>

\* the flat_map of param_names over the fields / elements of a pattern
param_names_each(pats, depth) ==
    IF Len(pats) = 0 THEN <<>>
    ELSE param_names(Head(pats), depth) \o param_names_each(Tail(pats), depth)

\* the values of RetTurnTy
RetTurnTy == {"Result", "Option", "Bare"}

\* helpers.rs return_fallible_ty: the printed return type compared, as a
\* whole, with the words Result and Option
return_fallible_ty(output) ==
    LET return_ty == to_string(IF output.k = "Default" THEN <<"(", ")">> ELSE TypeTokens(output.ty))
    IN  IF return_ty = <<"Result">> THEN "Result"
        ELSE IF return_ty = <<"Option">> THEN "Option"
        ELSE "Bare"

\* helpers.rs find_value_type: the type of the stored value
find_value_type(return_ty, output, output_ty) ==
    IF return_ty = "Bare" THEN Ok(output_ty)
    ELSE IF output.k = "Default"
         THEN Panic("function must return something for result or option attributes")
         ELSE IF output.ty.k = "Path"
              THEN IF output.ty.angle
                   THEN IF Len(output.ty.args) = 0
                        THEN Panic("called Option::unwrap() on a None value")
                        ELSE Ok(TypeTokens(output.ty.args[1]))
                   ELSE Panic("function return type has no inner type")
              ELSE Panic("function return type too complex")

\* syn::parse_str::<Type>: the type a string spells, or None when the string
\* is not one type (a comma-separated list of names is not)
ParseType(s) ==
    CASE s = "i32" -> Some(TyPath("i32"))
      [] s = "()" -> Some(TyTuple(<<>>))
      [] OTHER -> None

\* syn::parse_str::<Block>: the block a string spells (here a block whose
\* value is the tuple, or the single one, of the named bindings), or None
\* when the string is not a brace-delimited block
ParseBlock(s) ==
    CASE s = "{a}" -> Some([k |-> "Block", items |-> <<"a">>])
      [] s = "{()}" -> Some([k |-> "Block", items |-> <<>>])
      [] OTHER -> None

\* quote! {(#(#items),*)}: the tuple of the items
TupleOf(items) == [k |-> "Tuple", items |-> items]

\* make_cache_key_type with a key given without convert taken as a filter of
\* the default tuple instead of being refused
make_cache_key_type_lenient(key, convert, cache_type, input_tys, input_names) ==
    CASE key # None /\ convert # None ->
           IF ParseType(Unwrap(key)) = None THEN Panic("unable to parse cache key type")
           ELSE IF ParseBlock(Unwrap(convert)) = None THEN Panic("unable to parse key convert block")
           ELSE Ok([cache_key_ty |-> TypeTokens(Unwrap(ParseType(Unwrap(key)))),
                    key_convert_block |-> Unwrap(ParseBlock(Unwrap(convert)))])
      [] key = None /\ convert # None /\ cache_type # None ->
           IF ParseBlock(Unwrap(convert)) = None THEN Panic("unable to parse key convert block")
           ELSE Ok([cache_key_ty |-> <<>>, key_convert_block |-> Unwrap(ParseBlock(Unwrap(convert)))])
      [] convert = None ->
           Ok([cache_key_ty |->
                   <<"(">> \o Join([i \in 1..Len(input_tys) |-> TypeTokens(input_tys[i])], ",") \o <<")">>,
               key_convert_block |-> TupleOf(input_names)])
      [] key = None /\ convert # None /\ cache_type = None ->
           Panic("convert requires key or type to be set")

\* helpers.rs make_cache_key_type: the key type and the block that builds
\* the key, by which of key, convert and type are given
make_cache_key_type(key, convert, cache_type, input_tys, input_names) ==
    CASE key # None /\ convert # None ->
           IF ParseType(Unwrap(key)) = None THEN Panic("unable to parse cache key type")
           ELSE IF ParseBlock(Unwrap(convert)) = None THEN Panic("unable to parse key convert block")
           ELSE Ok([cache_key_ty |-> TypeTokens(Unwrap(ParseType(Unwrap(key)))),
                    key_convert_block |-> Unwrap(ParseBlock(Unwrap(convert)))])
      [] key = None /\ convert # None /\ cache_type # None ->
           IF ParseBlock(Unwrap(convert)) = None THEN Panic("unable to parse key convert block")
           ELSE Ok([cache_key_ty |-> <<>>, key_convert_block |-> Unwrap(ParseBlock(Unwrap(convert)))])
      [] key = None /\ convert = None ->
           Ok([cache_key_ty |->
                   <<"(">> \o Join([i \in 1..Len(input_tys) |-> TypeTokens(input_tys[i])], ",") \o <<")">>,
               key_convert_block |-> TupleOf(input_names)])
      [] key # None /\ convert = None -> Panic("key requires convert to be set")
      [] key = None /\ convert # None /\ cache_type = None ->
           Panic("convert requires key or type to be set")

\* the first panic of a sequence of outcomes, "" when none panicked
RECURSIVE FirstErr(_)
FirstErr(results) ==
    IF Len(results) = 0 THEN ""
    ELSE IF Head(results).err # "" THEN Head(results).err
    ELSE FirstErr(Tail(results))

\* helpers.rs get_input_names: the leaves of every input, in order
RECURSIVE get_input_names(_)
get_input_names(inputs) ==
    IF Len(inputs) = 0 THEN Ok(<<>>)
    ELSE IF Head(inputs).k = "Receiver"
         THEN Panic("methods (functions taking 'self') are not supported")
         ELSE LET rest == get_input_names(Tail(inputs))
              IN  IF rest.err # "" THEN rest
                  ELSE Ok(param_names(Head(inputs).pat, 0) \o rest.val)

RECURSIVE ty_from_depth_info(_, _)
\* helpers.rs ty_from_depth_info: the declared type, unwrapped depth times
\* through the first generic argument of its last path segment
ty_from_depth_info(depth, ty) ==
    IF depth = 0 THEN Ok(ty)
    ELSE IF ty.k = "Path"
         THEN IF ty.angle
              THEN IF Len(ty.args) = 0
                   THEN Panic("called Option::unwrap() on a None value")
                   ELSE IF ty.args[1].k = "Lifetime"
                        THEN Panic("GenericArgument not a type")
                        ELSE ty_from_depth_info(depth - 1, ty.args[1])
              ELSE Panic("PathArguments not AngleBracketed")
         ELSE Ok(ty)

\* the shorter of two lengths: Iterator::zip stops with the shorter side
Min(a, b) == IF a < b THEN a ELSE b

\* helpers.rs get_input_types: the i-th input zipped with the i-th depth
get_input_types(inputs, ty_depths_info) ==
    LET n == Min(Len(inputs), Len(ty_depths_info))
        each == [i \in 1..n |->
                    IF inputs[i].k = "Receiver"
                    THEN Panic("methods (functions taking 'self') are not supported")
                    ELSE ty_from_depth_info(ty_depths_info[i], inputs[i].ty)]
    IN  IF FirstErr(each) # "" THEN Panic(FirstErr(each))
        ELSE Ok([i \in 1..n |-> each[i].val])

\* helpers.rs get_wrapped_type_for_function_call: the arguments of the call
\* of the inner function, one per input: its pattern after strip_mut_from_pat
get_wrapped_type_for_function_call(inputs) ==
    LET each == [i \in 1..Len(inputs) |->
                    IF inputs[i].k = "Receiver"
                    THEN Panic("methods (functions taking 'self') are not supported")
                    ELSE IF strip_mut_from_pat(inputs[i]).k
                              \in {"Ident", "Tuple", "TupleStruct", "Struct", "Reference"}
                         THEN Ok(strip_mut_from_pat(inputs[i]))
                         ELSE Panic("unsupported pattern")]
    IN  IF FirstErr(each) # "" THEN Panic(FirstErr(each))
        ELSE Ok([i \in 1..Len(inputs) |-> each[i].val])


\* ------------------------------------------------------------------ lib.rs

\* the options the attribute may carry; `name` is no field of MacroArgs
MacroArgsFields == {"size", "ttl", "key", "convert", "type", "create"}

\* lib.rs MacroArgs (darling FromMeta::from_list): the options record, or
\* darling's error for an option that is no field of the struct
MacroArgs_from_list(attr_args) ==
    IF \E f \in DOMAIN attr_args : attr_args[f] # None /\ f \notin MacroArgsFields
    THEN Panic("Unknown field")
    ELSE Ok([size |-> attr_args.size, ttl |-> attr_args.ttl, key |-> attr_args.key,
             convert |-> attr_args.convert, cache_type |-> attr_args.type,
             cache_create |-> attr_args.create])

\* str::split(',') then trim of each piece, for the key strings of the model
SplitTrim(s) ==
    CASE s = "a, b" -> {"a", "b"}
      [] OTHER -> {s}

\* str::to_uppercase on the identifiers of the model
to_uppercase(s) ==
    CASE s = "cached" -> "CACHED"
      [] s = "result" -> "RESULT"
      [] s = "option" -> "OPTION"
      [] s = "f" -> "F"
      [] OTHER -> s

\* format!("{}_inner", fn_ident) on the identifiers of the model
inner_ident(s) ==
    CASE s = "cached" -> "cached_inner"
      [] s = "result" -> "result_inner"
      [] s = "option" -> "option_inner"
      [] s = "f" -> "f_inner"
      [] OTHER -> s

\* the cache method each arm of inner_function_call names
MethodOf(return_ty) ==
    CASE return_ty = "Result" -> "try_get_with_by_ref"
      [] return_ty = "Option" -> "optionally_get_with_by_ref"
      [] OTHER -> "get_with_by_ref"

\* inner_function_call with the `||` of the sync closures left out: the
\* inner call is an argument expression, evaluated on every call
inner_function_call_no_closure(input_names, return_ty, cache_ident, no_cache_fn_ident, is_async) ==
    LET call == [callee |-> no_cache_fn_ident, args |-> input_names, cache |-> cache_ident]
    IN  [method |-> MethodOf(return_ty),
         init |-> IF is_async THEN "future" ELSE "call",
         await |-> is_async,
         on_err |-> IF return_ty = "Result" THEN (IF is_async THEN "value" ELSE "return") ELSE "none",
         call |-> call]

\* inner_function_call with the async inner call awaited where it is
\* written: its value, not its future, is handed to the cache
inner_function_call_awaited(input_names, return_ty, cache_ident, no_cache_fn_ident, is_async) ==
    LET call == [callee |-> no_cache_fn_ident, args |-> input_names, cache |-> cache_ident]
    IN  [method |-> MethodOf(return_ty),
         init |-> IF is_async THEN "call" ELSE "closure",
         await |-> is_async,
         on_err |-> IF return_ty = "Result" THEN (IF is_async THEN "value" ELSE "return") ELSE "none",
         call |-> call]

\* lib.rs inner_function_call: the cache access emitted for the return shape
\* and the concurrency mode.  init is how the inner call is handed to the
\* cache: a closure (run by the cache on a miss), a future (polled by the
\* cache on a miss), or the bare call expression (evaluated by the caller
\* before the cache method is entered)
inner_function_call(input_names, return_ty, cache_ident, no_cache_fn_ident, is_async) ==
    LET call == [callee |-> no_cache_fn_ident, args |-> input_names, cache |-> cache_ident]
    IN  CASE return_ty = "Bare" /\ ~is_async ->
               [method |-> "get_with_by_ref", init |-> "closure", await |-> FALSE,
                on_err |-> "none", call |-> call]
          [] return_ty = "Bare" /\ is_async ->
               [method |-> "get_with_by_ref", init |-> "future", await |-> TRUE,
                on_err |-> "none", call |-> call]
          [] return_ty = "Result" /\ ~is_async ->
               [method |-> "try_get_with_by_ref", init |-> "closure", await |-> FALSE,
                on_err |-> "return", call |-> call]
          [] return_ty = "Result" /\ is_async ->
               [method |-> "try_get_with_by_ref", init |-> "future", await |-> TRUE,
                on_err |-> "value", call |-> call]
          [] return_ty = "Option" /\ ~is_async ->
               [method |-> "optionally_get_with_by_ref", init |-> "call", await |-> FALSE,
                on_err |-> "none", call |-> call]
          [] return_ty = "Option" /\ is_async ->
               [method |-> "optionally_get_with_by_ref", init |-> "future", await |-> TRUE,
                on_err |-> "none", call |-> call]

\* lib.rs cache_creation_statement: the cache type and its builder
\* expression, by time-to-live given or not and async or not
cache_creation_statement(args, is_async, cache_value_ty, cache_key_ty, size) ==
    LET flavour == IF is_async THEN "future" ELSE "sync"
    IN  [cache_ty |-> [cache |-> flavour, key_ty |-> cache_key_ty, value_ty |-> cache_value_ty],
         cache_create |-> [builder |-> flavour, max_capacity |-> size, time_to_live |-> args.ttl]]

\* lib.rs cached, lines 222-226: the capacity of the cache
cache_size(args, inner_function_call_args) ==
    IF Len(inner_function_call_args) = 0
    THEN IF args.size # None THEN Unwrap(args.size) ELSE 1
    ELSE IF args.size # None THEN Unwrap(args.size) ELSE 1000

\* lib.rs cached, from the signature on (lines 164-275): the expansion of
\* one annotated function under parsed options, or [err |-> the panic]
expand(args, input) ==
    LET signature == input.sig
        fn_ident == signature.ident
        inputs == signature.inputs
        output == signature.output
        is_async == signature.asyncness
        filter_args_by == IF args.key = None THEN None ELSE Some(SplitTrim(Unwrap(args.key)))
        names_r == get_input_names(inputs)
    IN  IF names_r.err # "" THEN [err |-> names_r.err] ELSE
    LET input_names_with_depth == names_r.val
        ty_depths_info == [i \in 1..Len(input_names_with_depth) |-> input_names_with_depth[i][2]]
        tys_r == get_input_types(inputs, ty_depths_info)
    IN  IF tys_r.err # "" THEN [err |-> tys_r.err] ELSE
    LET input_tys == tys_r.val
        input_names == [i \in 1..Len(input_names_with_depth) |-> input_names_with_depth[i][1]]
        cache_key_type_indexes ==
            {i \in 1..Len(input_names) :
                filter_args_by = None \/ input_names[i] \in Unwrap(filter_args_by)}
        call_r == get_wrapped_type_for_function_call(inputs)
    IN  IF call_r.err # "" THEN [err |-> call_r.err] ELSE
    LET inner_function_call_args == call_r.val
        output_ty == IF output.k = "Default" THEN <<"(", ")">> ELSE TypeTokens(output.ty)
        return_ty == return_fallible_ty(output)
        value_r == find_value_type(return_ty, output, output_ty)
    IN  IF value_r.err # "" THEN [err |-> value_r.err] ELSE
    LET cache_value_ty == value_r.val
        cache_ident == to_uppercase(fn_ident)
        \* the first parameter of make_cache_key_type is an Option<String>:
        \* the `key` option
        key_r == make_cache_key_type(args.key, args.convert, args.cache_type, input_tys, input_names)
    IN  IF key_r.err # "" THEN [err |-> key_r.err] ELSE
    LET size == cache_size(args, inner_function_call_args)
        plan == cache_creation_statement(args, is_async, cache_value_ty, key_r.val.cache_key_ty, size)
        no_cache_fn_ident == inner_ident(fn_ident)
    IN  [err |-> "",
         attributes |-> input.attrs,
         visibility |-> input.vis,
         signature |-> get_mut_signature(signature),
         function_no_cache |-> [asyncness |-> is_async, ident |-> no_cache_fn_ident,
                                inputs |-> inputs, output |-> output, body |-> input.block],
         cache_ident |-> cache_ident,
         cache_ty |-> plan.cache_ty,
         cache_create |-> IF args.cache_create # None
                          THEN [literal |-> Unwrap(args.cache_create)]
                          ELSE plan.cache_create,
         size |-> size,
         return_ty |-> return_ty,
         cache_key_type_indexes |-> cache_key_type_indexes,
         key_convert_block |-> key_r.val.key_convert_block,
         function_call |-> inner_function_call(inner_function_call_args, return_ty,
                                               cache_ident, no_cache_fn_ident, is_async)]

\* cached with receivers dropped from the parameter list before the
\* expansion instead of being refused
cached_dropping_self(attr_args, input) ==
    LET parsed == MacroArgs_from_list(attr_args)
        RECURSIVE typed_only(_)
        typed_only(inputs) ==
            IF Len(inputs) = 0 THEN <<>>
            ELSE IF Head(inputs).k = "Receiver" THEN typed_only(Tail(inputs))
            ELSE <<Head(inputs)>> \o typed_only(Tail(inputs))
    IN  IF parsed.err # "" THEN [err |-> parsed.err]
        ELSE expand(parsed.val, [input EXCEPT !.sig.inputs = typed_only(input.sig.inputs)])

\* lib.rs cached: the options are parsed first, and their error is the result
cached(attr_args, input) ==
    LET parsed == MacroArgs_from_list(attr_args)
    IN  IF parsed.err # "" THEN [err |-> parsed.err] ELSE expand(parsed.val, input)


\* ---------------------------------------------------------------- the state

VARIABLES
    attr,        \* the attribute's options, as written on the function
    input,       \* the annotated function (syn::ItemFn)
    expanded,    \* Pending before the macro ran, then what `cached` returned
    cache,       \* the static cache of the wrapper: key -> stored value
    pc,          \* per caller: where it is in the wrapper's body
    call,        \* per caller: the arguments and the key of its current call
    ncalls,      \* the calls of the wrapper started so far
    produced,    \* per key: the outcomes of the inner function's invocations
    evicted,     \* per key: how often the cache dropped its entry
    last         \* per caller: its last completed call

vars == <<attr, input, expanded, cache, pc, call, ncalls, produced, evicted, last>>

runtime == <<cache, pc, call, ncalls, produced, evicted, last>>

Callers == {"c1", "c2"}

\* the values an argument binding may take
Vals == {0, 1}

\* ------------------------------------------------- the annotated functions

P_ctx == Typed(PatIdent("ctx", FALSE), TyPath("Context"))
P_a == Typed(PatIdent("a", TRUE), TyPath("i32"))
P_b == Typed(PatIdent("b", FALSE), TyPath("i32"))
P_wrapper == Typed(PatTupleStruct("Wrapper", <<PatIdent("x", TRUE)>>),
                   TyGeneric("Wrapper", <<TyPath("i32")>>))
P_unit == Typed(PatTuple(<<>>), TyTuple(<<>>))
P_wild == Typed(PatWild, TyPath("i32"))

\* the parameters a parameter list is drawn from
ParamPool == {P_ctx, P_a, P_b, P_wrapper, P_unit, P_wild, Receiver}

\* the parameter lists: up to MaxParams distinct parameters, in any order
ParamLists ==
    UNION {{ps \in [1..n -> ParamPool] : \A i, j \in 1..n : i # j => ps[i] # ps[j]} : n \in 0..MaxParams}

T_i32 == TyPath("i32")
T_Result == TyGeneric("Result", <<TyPath("i32"), TyPath("i32")>>)
T_StdResult == TyPathFull(TRUE, <<"std", "result", "Result">>, TRUE, <<TyPath("i32"), TyPath("i32")>>)
T_Option == TyGeneric("Option", <<TyPath("i32")>>)
T_StdOption == TyPathFull(TRUE, <<"std", "option", "Option">>, TRUE, <<TyPath("i32")>>)
T_ResultAlias == TyPath("Result")

\* the declared return types
Outputs ==
    {ReturnDefault} \cup
    {ReturnType(t) : t \in {T_i32, T_Result, T_StdResult, T_Option, T_StdOption, T_ResultAlias}}

ItemFn(ident, is_async, inputs, output) ==
    [attrs |-> <<>>, vis |-> "pub",
     sig |-> [ident |-> ident, asyncness |-> is_async, inputs |-> inputs, output |-> output],
     block |-> "body"]

Items == {ItemFn("f", as, ps, o) : as \in BOOLEAN, ps \in ParamLists, o \in Outputs}

Attrs ==
    [size : {None, Some(1337)}, ttl : {None, Some(13)}, key : {None, Some("a, b"), Some("i32")},
     convert : {None, Some("{a}")}, type : {None, Some("Cache")},
     create : {None, Some("Cache::new(1)")},
     name : {None, Some("MEMO")}]

\* the macro has not run yet
Pending == [err |-> "pending"]

NoCall == [active |-> FALSE, env |-> <<>>, key |-> <<>>]
NoLast == [done |-> FALSE, key |-> <<>>, result |-> <<>>, gen |-> 0, how |-> ""]

RuntimeInit ==
    /\ cache = <<>>
    /\ pc = [c \in Callers |-> "idle"]
    /\ call = [c \in Callers |-> NoCall]
    /\ ncalls = 0
    /\ produced = <<>>
    /\ evicted = <<>>
    /\ last = [c \in Callers |-> NoLast]

\* lib.rs cached: the macro runs once on the annotated function
Expand ==
    /\ expanded = Pending
    /\ expanded' = cached(attr, input)
    /\ UNCHANGED <<attr, input, runtime>>

InitExpand ==
    /\ attr \in Attrs
    /\ input \in Items
    /\ expanded = Pending
    /\ RuntimeInit

NextExpand == Expand

SpecExpand == InitExpand /\ [][NextExpand]_vars


\* ------------------------------------------------------- the wrapper at run time

\* the functions and options the wrapper is run for: the fixtures of
\* tests/asyncops.rs and tests/syncops.rs (cached, cached2, cached6, result,
\* option), sync and async, under no options, a time-to-live (cached4),
\* and the options of cached6
RunParamLists == {<<>>, <<P_a>>, <<P_a, P_ctx>>}
RunOutputs == {ReturnType(T_i32), ReturnType(T_Result), ReturnType(T_Option)}
RunItems == {ItemFn("f", as, ps, o) : as \in BOOLEAN, ps \in RunParamLists, o \in RunOutputs}
NoOptions ==
    [size |-> None, ttl |-> None, key |-> None, convert |-> None, type |-> None,
     create |-> None, name |-> None]
RunAttrs ==
    {NoOptions,
     [NoOptions EXCEPT !.ttl = Some(13)],
     [NoOptions EXCEPT !.ttl = Some(13), !.size = Some(1337), !.convert = Some("{a}"), !.key = Some("i32")]}

\* the names the parameters of the wrapper bind
LeafNames(inputs) ==
    LET names == get_input_names(inputs).val
    IN  {names[i][1] : i \in 1..Len(names)}

\* the value of the key expression (`let key = #key_convert_block;`) under
\* the argument values env: the tuple of the values of the names it lists
KeyOf(key_convert_block, env) ==
    [i \in 1..Len(key_convert_block.items) |-> env[key_convert_block.items[i]]]

RECURSIVE SumOver(_, _)
SumOver(env, names) ==
    IF names = {} THEN 0
    ELSE LET n == CHOOSE x \in names : TRUE IN env[n] + SumOver(env, names \ {n})

\* what the body of the annotated function may produce for the arguments
\* env: a value fixed by the arguments (their sum plus one), as Ok or Err
\* under a declared Result, as Some or absent under a declared Option
Outcomes(output, env) ==
    LET v == 1 + SumOver(env, DOMAIN env)
        last_seg == IF output.k = "Type" /\ output.ty.k = "Path" /\ output.ty.angle
                    THEN output.ty.segs[Len(output.ty.segs)] ELSE ""
    IN  CASE last_seg = "Result" -> {[tag |-> "Ok", v |-> v], [tag |-> "Err", v |-> v]}
          [] last_seg = "Option" -> {[tag |-> "Some", v |-> v], [tag |-> "None", v |-> 0]}
          [] OTHER -> {[tag |-> "Val", v |-> v]}

\* moka: what get_with / try_get_with / optionally_get_with insert for the
\* outcome of the init step: everything, only the value of an Ok, only the
\* value of a Some
StoredOf(method, outcome) ==
    CASE method = "get_with_by_ref" -> Some(outcome)
      [] method = "try_get_with_by_ref" ->
           IF outcome.tag = "Ok" THEN Some([tag |-> "Val", v |-> outcome.v]) ELSE None
      [] method = "optionally_get_with_by_ref" ->
           IF outcome.tag = "Some" THEN Some([tag |-> "Val", v |-> outcome.v]) ELSE None

\* moka: what the method returns for an entry it found
FoundAs(method, stored) ==
    CASE method = "get_with_by_ref" -> stored
      [] method = "try_get_with_by_ref" -> [tag |-> "Ok", v |-> stored.v]
      [] method = "optionally_get_with_by_ref" -> [tag |-> "Some", v |-> stored.v]

Put(f, k, v) == [x \in DOMAIN f \cup {k} |-> IF x = k THEN v ELSE f[x]]
Drop(f, k) == [x \in DOMAIN f \ {k} |-> f[x]]
Get(f, k, default) == IF k \in DOMAIN f THEN f[k] ELSE default

\* the invocations of the inner function made so far for key k
Invocations(k) ==
    Len(Get(produced, k, <<>>))
    + Cardinality({c \in Callers : pc[c] = "init" /\ call[c].key = k})

Finished(c, k, result, gen, how) ==
    [done |-> TRUE, key |-> k, result |-> result, gen |-> gen, how |-> how]

\* the emitted wrapper (lib.rs 259-273), entered by caller c with the
\* argument values env: `let key = #key_convert_block;`
Call(c) ==
    /\ expanded.err = ""
    /\ pc[c] = "idle"
    /\ ncalls < MaxCalls
    /\ \A i \in 1..Len(expanded.key_convert_block.items) :
          expanded.key_convert_block.items[i] \in LeafNames(expanded.signature.inputs)
    /\ \E env \in [LeafNames(expanded.signature.inputs) -> Vals] :
          call' = [call EXCEPT ![c] =
                      [active |-> TRUE, env |-> env, key |-> KeyOf(expanded.key_convert_block, env)]]
    /\ pc' = [pc EXCEPT ![c] = "access"]
    /\ ncalls' = ncalls + 1
    /\ last' = [last EXCEPT ![c] = NoLast]
    /\ UNCHANGED <<attr, input, expanded, cache, produced, evicted>>

\* the cache method of #function_call is entered: an entry found is
\* returned; a key another caller is computing is waited for; otherwise the
\* init step (the inner function) is started for this caller.  An init given
\* as a bare call expression has been evaluated by then, on every call
Access(c) ==
    /\ pc[c] = "access"
    /\ LET k == call[c].key
           fc == expanded.function_call
       IN  IF fc.init = "call"
           THEN \E outcome \in Outcomes(expanded.function_no_cache.output, call[c].env) :
                  /\ produced' = Put(produced, k, Append(Get(produced, k, <<>>), outcome))
                  /\ IF k \in DOMAIN cache
                     THEN /\ last' = [last EXCEPT ![c] =
                                  Finished(c, k, FoundAs(fc.method, cache[k]),
                                           Len(produced'[k]), "hit")]
                          /\ cache' = cache
                     ELSE /\ last' = [last EXCEPT ![c] =
                                  Finished(c, k, outcome, Len(produced'[k]), "computed")]
                          /\ cache' = IF StoredOf(fc.method, outcome) = None THEN cache
                                      ELSE Put(cache, k, Unwrap(StoredOf(fc.method, outcome)))
                  /\ pc' = [pc EXCEPT ![c] = "idle"]
                  /\ call' = [call EXCEPT ![c] = NoCall]
           ELSE /\ UNCHANGED <<cache, produced>>
                /\ IF k \in DOMAIN cache
                   THEN /\ last' = [last EXCEPT ![c] =
                                Finished(c, k, FoundAs(fc.method, cache[k]),
                                         Len(Get(produced, k, <<>>)), "hit")]
                        /\ pc' = [pc EXCEPT ![c] = "idle"]
                        /\ call' = [call EXCEPT ![c] = NoCall]
                   ELSE IF \E d \in Callers : pc[d] = "init" /\ call[d].key = k
                        THEN /\ pc' = [pc EXCEPT ![c] = "waiting"]
                             /\ UNCHANGED <<last, call>>
                        ELSE /\ pc' = [pc EXCEPT ![c] = "init"]
                             /\ UNCHANGED <<last, call>>
    /\ UNCHANGED <<attr, input, expanded, ncalls, evicted>>

\* the inner function returns to the cache: the cache inserts what the
\* method stores, and the computing caller and every caller waiting on the
\* key get the outcome
InitDone(c) ==
    /\ pc[c] = "init"
    /\ LET k == call[c].key
           fc == expanded.function_call
           waiters == {d \in Callers : pc[d] = "waiting" /\ call[d].key = k}
       IN  \E outcome \in Outcomes(expanded.function_no_cache.output, call[c].env) :
             /\ produced' = Put(produced, k, Append(Get(produced, k, <<>>), outcome))
             /\ cache' = IF StoredOf(fc.method, outcome) = None THEN cache
                         ELSE Put(cache, k, Unwrap(StoredOf(fc.method, outcome)))
             /\ last' = [d \in Callers |->
                            IF d = c THEN Finished(d, k, outcome, Len(produced'[k]), "computed")
                            ELSE IF d \in waiters
                                 THEN Finished(d, k, outcome, Len(produced'[k]), "waited")
                                 ELSE last[d]]
             /\ pc' = [d \in Callers |-> IF d = c \/ d \in waiters THEN "idle" ELSE pc[d]]
             /\ call' = [d \in Callers |-> IF d = c \/ d \in waiters THEN NoCall ELSE call[d]]
    /\ UNCHANGED <<attr, input, expanded, ncalls, evicted>>

RECURSIVE Total(_, _)
Total(f, ks) ==
    IF ks = {} THEN 0 ELSE LET k == CHOOSE x \in ks : TRUE IN f[k] + Total(f, ks \ {k})

\* whether the cache built by #cache_create may drop an entry now: it has a
\* time-to-live, or holds more than max_capacity entries (a `create`
\* override builds a cache this model knows nothing of)
MayDrop ==
    \/ "literal" \in DOMAIN expanded.cache_create
    \/ expanded.cache_create.time_to_live # None
    \/ Cardinality(DOMAIN cache) > expanded.cache_create.max_capacity

\* moka drops an entry: evicted for capacity, or expired by time-to-live
Evict ==
    /\ expanded.err = ""
    /\ Total(evicted, DOMAIN evicted) < MaxEvictions
    /\ MayDrop
    /\ \E k \in DOMAIN cache :
          /\ cache' = Drop(cache, k)
          /\ evicted' = Put(evicted, k, Get(evicted, k, 0) + 1)
    /\ UNCHANGED <<attr, input, expanded, pc, call, ncalls, produced, last>>

Init ==
    /\ attr \in RunAttrs
    /\ input \in RunItems
    /\ expanded = Pending
    /\ RuntimeInit

Next ==
    \/ Expand
    \/ \E c \in Callers : Call(c)
    \/ \E c \in Callers : Access(c)
    \/ \E c \in Callers : InitDone(c)
    \/ Evict

Spec == Init /\ [][Next]_vars


\* ------------------------------------------- the analysis of the parameters

\* lib.rs cached, lines 182-188: the leaf bindings of the parameters with
\* their depths, the key types get_input_types makes of them, and the names;
\* [err |-> the panic] when get_input_names panicked, and the panic of
\* get_input_types beside the bindings when that one did
input_analysis(inputs) ==
    LET names_r == get_input_names(inputs)
    IN  IF names_r.err # "" THEN [err |-> names_r.err] ELSE
    LET input_names_with_depth == names_r.val
        ty_depths_info == [i \in 1..Len(input_names_with_depth) |-> input_names_with_depth[i][2]]
        tys_r == get_input_types(inputs, ty_depths_info)
        input_names == [i \in 1..Len(input_names_with_depth) |-> input_names_with_depth[i][1]]
    IN  [err |-> tys_r.err,
         input_names_with_depth |-> input_names_with_depth,
         ty_depths_info |-> ty_depths_info,
         input_tys |-> tys_r.val,
         input_names |-> input_names]

\* &r: &i32
P_ref == Typed(PatReference(PatIdent("r", FALSE)), TyReference(TyPath("i32")))
\* (p, q): (i32, i32)
P_pair == Typed(PatTuple(<<PatIdent("p", FALSE), PatIdent("q", FALSE)>>),
                TyTuple(<<TyPath("i32"), TyPath("i32")>>))
\* Point { px, py }: Point
P_point == Typed(PatStruct("Point", <<PatIdent("px", FALSE), PatIdent("py", FALSE)>>),
                 TyPath("Point"))
\* Wrapper(Wrapper(n)): Wrapper<Wrapper<i32>>
P_nested == Typed(PatTupleStruct("Wrapper", <<PatTupleStruct("Wrapper", <<PatIdent("n", FALSE)>>)>>),
                  TyGeneric("Wrapper", <<TyGeneric("Wrapper", <<TyPath("i32")>>)>>))
\* Both(l, m): Both<i32>
P_both == Typed(PatTupleStruct("Both", <<PatIdent("l", FALSE), PatIdent("m", FALSE)>>),
                TyGeneric("Both", <<TyPath("i32")>>))
\* Wrapper(&w): Wrapper<&i32>
P_wrapped_ref == Typed(PatTupleStruct("Wrapper", <<PatReference(PatIdent("w", FALSE))>>),
                       TyGeneric("Wrapper", <<TyReference(TyPath("i32"))>>))
\* Borrowed(v): Borrowed<'a, i32>
P_borrowed == Typed(PatTupleStruct("Borrowed", <<PatIdent("v", FALSE)>>),
                    TyGeneric("Borrowed", <<Lifetime, TyPath("i32")>>))

\* the parameters the analysis is run on: identifier, reference, tuple,
\* tuple-struct and struct patterns, with no, one and several leaves
BindingPool ==
    {P_a, P_ctx, P_wrapper, P_unit, P_ref, P_pair, P_point, P_nested, P_both,
     P_wrapped_ref, P_borrowed}

BindingLists ==
    UNION {{ps \in [1..n -> BindingPool] : \A i, j \in 1..n : i # j => ps[i] # ps[j]} : n \in 0..MaxParams}

BindingItems == {ItemFn("f", as, ps, ReturnType(T_i32)) : as \in BOOLEAN, ps \in BindingLists}

\* lib.rs cached, lines 182-188, run on the annotated function
Analyse ==
    /\ expanded = Pending
    /\ expanded' = input_analysis(input.sig.inputs)
    /\ UNCHANGED <<attr, input, runtime>>

InitAnalyse ==
    /\ attr = NoOptions
    /\ input \in BindingItems
    /\ expanded = Pending
    /\ RuntimeInit

NextAnalyse == Analyse

SpecAnalyse == InitAnalyse /\ [][NextAnalyse]_vars


\* ------------------------------------------------------------------- claims

\* the macro ran and emitted a wrapper
Emitted == expanded.err = ""

\* the shape a declared return type has by the last identifier of its
\* outermost path (what the documentation of the classifier promises)
ShapeByLastIdent(output) ==
    IF output.k = "Type" /\ output.ty.k = "Path"
    THEN CASE output.ty.segs[Len(output.ty.segs)] = "Result" -> "Result"
           [] output.ty.segs[Len(output.ty.segs)] = "Option" -> "Option"
           [] OTHER -> "Bare"
    ELSE "Bare"

\* the outcomes for key k that the access method did not store
RECURSIVE NotStored(_, _)
NotStored(method, outcomes) ==
    IF Len(outcomes) = 0 THEN 0
    ELSE (IF StoredOf(method, Head(outcomes)) = None THEN 1 ELSE 0)
         + NotStored(method, Tail(outcomes))

KeysSeen == DOMAIN produced \cup {call[c].key : c \in {d \in Callers : pc[d] = "init"}}

NoEviction == \A k \in DOMAIN evicted : evicted[k] = 0

\* C1: once a result is stored for key k, later calls with an equal key
\* return the stored result and do not invoke the inner function again: per
\* key the inner function runs at most once, plus once per dropped entry and
\* per outcome that was not stored; a hit returns the outcome that was
\* stored; and a zero-argument function without options (capacity 1, no
\* time-to-live: its one entry is never dropped), once a call has returned,
\* has run its body exactly once.
C1_ComputedOnce ==
    Emitted =>
        /\ \A k \in KeysSeen :
              Invocations(k) <= 1 + Get(evicted, k, 0)
                                + NotStored(expanded.function_call.method, Get(produced, k, <<>>))
        /\ \A c \in Callers :
              last[c].done /\ last[c].how = "hit"
                  => /\ last[c].key \in DOMAIN produced
                     /\ last[c].gen \in 1..Len(produced[last[c].key])
                     /\ last[c].result = produced[last[c].key][last[c].gen]
        /\ (/\ input.sig.inputs = <<>>
            /\ attr = NoOptions
            /\ \E c \in Callers : last[c].done)
               => Invocations(<<>>) = 1

\* a second call found the result the first call stored: one invocation
C1_Witness ==
    /\ Emitted
    /\ NoEviction
    /\ \E c, d \in Callers :
          /\ c # d
          /\ last[c].done /\ last[c].how = "computed"
          /\ last[d].done /\ last[d].how = "hit" /\ last[d].key = last[c].key
          /\ last[d].result = last[c].result
          /\ Invocations(last[c].key) = 1

\* C2: for a function declared to return a Result, a failed computation is
\* not stored: no cache entry holds an Err, and no call is answered from
\* the cache with an Err (the next call computes again).
C2_FailureNotStored ==
    (Emitted /\ ShapeByLastIdent(input.sig.output) = "Result") =>
        /\ \A k \in DOMAIN cache : cache[k].tag # "Err"
        /\ \A c \in Callers : last[c].done /\ last[c].how = "hit" => last[c].result.tag # "Err"

\* C3: for a function declared to return an Option, an absent result is not
\* stored: no cache entry holds absence, and no call is answered from the
\* cache with absence.
C3_AbsenceNotStored ==
    (Emitted /\ ShapeByLastIdent(input.sig.output) = "Option") =>
        /\ \A k \in DOMAIN cache : cache[k].tag # "None"
        /\ \A c \in Callers : last[c].done /\ last[c].how = "hit" => last[c].result.tag # "None"

\* C4: for fn f(ctx, a, b) with key = "a, b" and no convert the expansion
\* succeeds and the key is built from exactly a and b.
C4_KeyFilter ==
    (/\ expanded.err # "pending"
     /\ input.sig.inputs = <<P_ctx, P_a, P_b>>
     /\ attr.key = Some("a, b") /\ attr.convert = None /\ attr.name = None)
        => /\ Emitted
           /\ expanded.key_convert_block.items = <<"a", "b">>

\* C5: concurrent callers of one missing key: at most one of them runs the
\* inner function at a time, a waiting caller has a computing one, the
\* inner function runs once per miss (once, plus once per dropped entry and
\* per outcome not stored), and all callers answered by the same
\* computation observe the same result, which is that computation's outcome.
C5_SingleFlight ==
    Emitted =>
        /\ \A c, d \in Callers :
              (c # d /\ pc[c] = "init" /\ pc[d] = "init") => call[c].key # call[d].key
        /\ \A c \in Callers :
              pc[c] = "waiting" => \E d \in Callers : pc[d] = "init" /\ call[d].key = call[c].key
        /\ \A k \in KeysSeen :
              Invocations(k) <= 1 + Get(evicted, k, 0)
                                + NotStored(expanded.function_call.method, Get(produced, k, <<>>))
        /\ \A c, d \in Callers :
              (last[c].done /\ last[d].done /\ last[c].key = last[d].key /\ last[c].gen = last[d].gen)
                  => last[c].result = last[d].result
        /\ \A c \in Callers :
              last[c].done => last[c].result = produced[last[c].key][last[c].gen]

\* two callers missed the same key together: one computed, one waited, and
\* both got the outcome of the single invocation
C5_Witness ==
    /\ Emitted
    /\ \E c, d \in Callers :
          /\ last[c].done /\ last[c].how = "computed"
          /\ last[d].done /\ last[d].how = "waited"
          /\ last[c].key = last[d].key /\ last[c].gen = last[d].gen
          /\ last[c].result = last[d].result
          /\ Invocations(last[c].key) = 1


\* the macro ran (it emitted a wrapper or failed)
Ran == expanded.err # "pending"

\* the access method that goes with a return shape
MethodFor(shape) ==
    CASE shape = "Result" -> "try_get_with_by_ref"
      [] shape = "Option" -> "optionally_get_with_by_ref"
      [] OTHER -> "get_with_by_ref"

\* C6: the classifier gives every declared return type the shape of the
\* last identifier of its outermost path (Result, also module-qualified:
\* fallible; Option: optional; no return type or anything else: plain), and
\* the emitted access method is the one of that shape.
C6_ShapeByLastIdent ==
    Emitted =>
        /\ expanded.return_ty = ShapeByLastIdent(input.sig.output)
        /\ expanded.function_call.method = MethodFor(ShapeByLastIdent(input.sig.output))

\* the panics of the stages of `cached` that run before key synthesis
BeforeKeySynthesis ==
    {"pending", "Unknown field",
     "methods (functions taking 'self') are not supported",
     "called Option::unwrap() on a None value",
     "GenericArgument not a type",
     "PathArguments not AngleBracketed",
     "unsupported pattern",
     "function must return something for result or option attributes",
     "function return type has no inner type",
     "function return type too complex"}

\* the tokens of the tuple of the given types
TupleTypeTokens(tys) ==
    <<"(">> \o Join([i \in 1..Len(tys) |-> TypeTokens(tys[i])], ",") \o <<")">>

C8_Capacity ==
    Emitted =>
        /\ attr.create = None => expanded.cache_create.max_capacity = expanded.size
        /\ expanded.size =
              IF attr.size # None THEN Unwrap(attr.size)
              ELSE IF expanded.key_convert_block.items = <<>> THEN 1 ELSE 1000

RECURSIVE StripAllMut(_)
\* a pattern with every binding's `mut` removed, also inside destructuring
StripAllMut(pat) ==
    [pat EXCEPT !.mutability = FALSE,
                !.elems = [i \in 1..Len(pat.elems) |-> StripAllMut(pat.elems[i])]]

\* C9: the outer signature is the original one with every mutability
\* qualifier of a parameter binding removed, also inside destructuring
\* patterns; the inner function keeps the original parameters, return type
\* and body.
C9_MutStripped ==
    Emitted =>
        /\ expanded.signature =
              [input.sig EXCEPT !.inputs =
                  [i \in 1..Len(input.sig.inputs) |->
                      [input.sig.inputs[i] EXCEPT !.pat = StripAllMut(input.sig.inputs[i].pat)]]]
        /\ expanded.function_no_cache.inputs = input.sig.inputs
        /\ expanded.function_no_cache.output = input.sig.output
        /\ expanded.function_no_cache.body = input.block

\* C10: a function with a receiver parameter, at any position and under any
\* options, makes the expansion fail: no wrapper is emitted.
C10_ReceiverRejected ==
    (Ran /\ \E i \in 1..Len(input.sig.inputs) : input.sig.inputs[i].k = "Receiver")
        => ~Emitted

\* a receiver that is not the first parameter, under options that are all
\* accepted, was rejected by the panic about methods
C10_Witness ==
    /\ Ran
    /\ Len(input.sig.inputs) = MaxParams
    /\ input.sig.inputs[MaxParams].k = "Receiver"
    /\ attr.name = None /\ attr.key = Some("i32") /\ attr.convert = Some("{a}")
    /\ expanded.err = "methods (functions taking 'self') are not supported"

\* C11: the static cache is named by the function's name upper-cased when no
\* name option is given and by the supplied name when one is given, and an
\* attribute carrying the name option is accepted by the attribute parser.
C11_CacheIdent ==
    Ran =>
        /\ attr.name # None => expanded.err # "Unknown field"
        /\ Emitted =>
              expanded.cache_ident =
                  IF attr.name = None THEN to_uppercase(input.sig.ident)
                  ELSE Unwrap(attr.name)

\* the index of the parameter that owns each leaf binding, leaf by leaf
RECURSIVE OwnerOf(_, _)
OwnerOf(inputs, i) ==
    IF i > Len(inputs) THEN <<>>
    ELSE [j \in 1..Len(param_names(inputs[i].pat, 0)) |-> i] \o OwnerOf(inputs, i + 1)

\* C12: for every list of identifier, reference, tuple, tuple-struct and
\* struct parameters that the analysis accepts, get_input_types yields as many
\* key types as get_input_names yields leaves, and the i-th type is the
\* declared type of the parameter that owns the i-th leaf, unwrapped by the
\* depth of that leaf.
C12_TypePerLeaf ==
    (Ran /\ Emitted) =>
        LET leaves == expanded.input_names_with_depth
            owner == OwnerOf(input.sig.inputs, 1)
        IN  /\ Len(expanded.input_tys) = Len(leaves)
            /\ \A i \in 1..Len(leaves) :
                  Ok(expanded.input_tys[i]) =
                      ty_from_depth_info(leaves[i][2], input.sig.inputs[owner[i]].ty)

\* a type that can be unwrapped `depth` times: each time it is a path whose
\* last segment has a generic-argument list that starts with a type
RECURSIVE CanDescend(_, _)
CanDescend(ty, depth) ==
    IF depth = 0 THEN TRUE
    ELSE /\ ty.k = "Path" /\ ty.angle
         /\ Len(ty.args) > 0
         /\ ty.args[1].k # "Lifetime"
         /\ CanDescend(ty.args[1], depth - 1)

\* the first generic argument of the first generic argument ..., depth times
RECURSIVE FirstArg(_, _)
FirstArg(ty, depth) == IF depth = 0 THEN ty ELSE FirstArg(ty.args[1], depth - 1)

\* C13: ty_from_depth_info returns the declared type unchanged at depth 0 and
\* the depth-th nested first generic argument at a depth above 0, and fails
\* whenever a depth above 0 meets a type with no generic-argument list to
\* descend into (a path without angle brackets, a reference, a tuple): it
\* never returns a type then.
C13_UnwrapOrFail ==
    (Ran /\ expanded.err # "methods (functions taking 'self') are not supported") =>
        LET inputs == input.sig.inputs
            depths == expanded.ty_depths_info
            pairs == 1..Min(Len(inputs), Len(depths))
        IN  /\ (\E i \in pairs : ~CanDescend(inputs[i].ty, depths[i])) => ~Emitted
            /\ Emitted =>
                  \A i \in pairs : expanded.input_tys[i] = FirstArg(inputs[i].ty, depths[i])

=============================================================================
